---------------------------- MODULE Spec2Model ----------------------------
(***************************************************************************)
(* Model of src/src/index.ts (mousygons): the Point class and the          *)
(* Mousygons effect controller.                                            *)
(*                                                                         *)
(* Numbers.  Point coordinates and sizes are integers in the code (they    *)
(* come out of Math.floor).  The fade value `alpha` and the fade increment *)
(* `alphaSpeed` are IEEE-754 binary64 numbers; they are modelled exactly,  *)
(* as a count of units of 2^-54 split into three fields (see "binary64").  *)
(* A value returned by Math.random() is modelled by its numerator r over   *)
(* RandDen = 2^RandBits, i.e. Math.random() = r / RandDen, 0 <= r <        *)
(* RandDen; for such values every product and sum the code forms in        *)
(* randomIntBetween and randomFloatBetween is exact in binary64.  A few    *)
(* values of Math.random() with a full fraction, the largest double below  *)
(* 1 among them, are modelled as well (FineRandoms); a negative r stands   *)
(* for one of them, and for these the products and sums are rounded as     *)
(* binary64 rounds them.                                                   *)
(*                                                                         *)
(* Specifications.  Spec is the controller over MaxTicks ticks with        *)
(* mousemove events, its Math.random() read from one of a few streams      *)
(* fixed at the start of the run (four scripted, one pseudo-random with    *)
(* several start positions).  SpecFill is the controller's first tick with *)
(* every Math.random() call free to return any value of a small set.       *)
(* SpecFair is the controller under fair scheduling.  SpecPoint is one     *)
(* Point under repeated update().  SpecHex is one call of hexToRgb.        *)
(***************************************************************************)
EXTENDS Integers, Sequences, FiniteSets, TLC

VARIABLES
    points,         \* Mousygons.points: the active collection, a sequence of Point
    mousePosition,  \* Mousygons.mousePosition
    css,            \* the style last requested for the overlay surface (mouseCanvas.css)
    canvas,         \* what is on the drawing surface: the rectangles filled since the last clearRect
    pc,             \* position of the single JS thread: "idle" between callbacks, else the step of update()
    tick,           \* number of update() callbacks started
    nextId,         \* number of Points constructed by fillPoints so far (identity of the next one)
    adv,            \* record of the last updatePoints(): ids present at its start, ids update() was
                    \* called on, ids found satisfied
    tape,           \* which scripted Math.random() stream drives this run (0: unscripted)
    tapePos,        \* number of scripted values consumed, modulo the script's length
    lastEvent,      \* coordinates of the most recent mousemove event delivered
    search,         \* the last iteration of createPoint's while loop: the candidate it
                    \* drew and the positionConflict it found
    hexIn,          \* argument of the hexToRgb call under test
    hexOut          \* its result (Unset before the call)

vars == <<points, mousePosition, css, canvas, pc, tick, nextId, adv, tape,
          tapePos, lastEvent, search, hexIn, hexOut>>

-----------------------------------------------------------------------------
(* Program constants *)

ALPHA_THRESHOLD == 255
MAX_POINTS_ALIVE == 6
MOUSE_WIDTH == 12
MOUSE_HEIGHT == 20
CANVAS_WIDTH == 64
CANVAS_HEIGHT == 64
\* FADE_MIN = 0.25 and FADE_MAX = 1.75, in quarters
FADE_MIN_x4 == 1
FADE_MAX_x4 == 7

-----------------------------------------------------------------------------
(* Bounds of the model *)

\* Math.random() values are multiples of 2^-RandBits
RandBits == 7
\* update() callbacks per run of the controller specification
MaxTicks == 1022
\* start positions tried in the pseudo-random Math.random() stream
NumSeeds == 6
\* update() callbacks per run when Math.random() is unscripted
FillTicks == 1
\* mousemove events carry pageX, pageY in 0..MaxCoord
MaxCoord == 1
\* update() calls on the single Point of SpecPoint
MaxCalls == 1022
\* length of the strings handed to hexToRgb
MaxHexLen == 7

RandDen == 2 ^ RandBits

-----------------------------------------------------------------------------
(* binary64.  A non-negative double v that is 0 or lies in [2^-2, 2^26) is *)
(* a multiple of 2^-54; it is held as [i, h, l] with                       *)
(*     v = i + h / 2^27 + l / 2^54,   0 <= h, l < 2^27.                    *)

Limb == 2 ^ 27

Dbl(i, h, l) == [i |-> i, h |-> h, l |-> l]

\* the double n, for an integer n >= 0
DblInt(n) == Dbl(n, 0, 0)

\* the double num / 2^bits (bits <= 27), exactly
DblFrac(num, bits) ==
    Dbl(num \div (2 ^ bits), (num % (2 ^ bits)) * (2 ^ (27 - bits)), 0)

\* a + b without rounding
DblSum(a, b) ==
    LET l == a.l + b.l
        h == a.h + b.h + (l \div Limb)
    IN  Dbl(a.i + b.i + (h \div Limb), h % Limb, l % Limb)

\* a >= b
DblGeq(a, b) ==
    \/ a.i > b.i
    \/ a.i = b.i /\ a.h > b.h
    \/ a.i = b.i /\ a.h = b.h /\ a.l >= b.l

RECURSIVE BitLen(_)
BitLen(n) == IF n = 0 THEN 0 ELSE 1 + BitLen(n \div 2)

\* Number of low bits (of the 2^-54 units) that do not fit in a 53-bit
\* significand: v in [2^k, 2^(k+1)) has ulp 2^(k-52).
DropBits(v) ==
    IF v.i > 0 THEN 1 + BitLen(v.i)
    ELSE IF v.h >= Limb \div 2 THEN 1
    ELSE 0

\* v rounded to the nearest double, ties to even (the default rounding mode)
DblRound(v) ==
    LET e    == DropBits(v)
        q    == 2 ^ e
        rem  == v.l % q
        down == Dbl(v.i, v.h, v.l - rem)
        odd  == (v.l \div q) % 2 = 1
    IN  IF rem = 0 THEN v
        ELSE IF 2 * rem > q \/ (2 * rem = q /\ odd)
             THEN DblSum(down, Dbl(0, 0, q))
             ELSE down

\* the binary64 sum a + b
DblAdd(a, b) == DblRound(DblSum(a, b))

\* v / 2 without rounding, for v an even number of units of 2^-54
DblHalf(v) ==
    LET h == (v.i % 2) * Limb + v.h
    IN  Dbl(v.i \div 2, h \div 2, ((h % 2) * Limb + v.l) \div 2)

\* n * f without rounding (n >= 0), by doubling; the product for n \div 2
\* is bound as a value, so that it is computed once
RECURSIVE DblTimes(_, _)
DblTimes(f, n) ==
    IF n = 0 THEN Dbl(0, 0, 0)
    ELSE CHOOSE product \in
             { IF n % 2 = 1 THEN DblSum(DblSum(half, half), f)
                            ELSE DblSum(half, half) :
               half \in {DblTimes(f, n \div 2)} } : TRUE

-----------------------------------------------------------------------------
(* class Point *)

\* new Point(x, y, dimensions, alphaSpeed); id, born and updates are not
\* fields of the class: they record which Point this is, the tick that
\* constructed it and how many update() calls it has received.
Point(x, y, dimensions, alphaSpeed, id, born) ==
    [x |-> x, y |-> y, dimensions |-> dimensions, alpha |-> Dbl(0, 0, 0),
     alphaSpeed |-> alphaSpeed, satisfied |-> FALSE,
     id |-> id, born |-> born, updates |-> 0]

\* Point.distanceToCoords returns Math.sqrt(a*a + b*b); this is its square.
\* a and b are integers here, and for integers n, k >= 0 the correctly
\* rounded Math.sqrt(n) <= k exactly when n <= k*k.
distanceToCoordsSq(p, x, y) ==
    LET a == p.x - x
        b == p.y - y
    IN  a * a + b * b

\* Variant: update() without its `if(!this.satisfied)` guard.
updateNoGuard(p) ==
    LET a == DblAdd(p.alpha, p.alphaSpeed)
    IN  [p EXCEPT !.alpha = a,
                  !.satisfied = @ \/ DblGeq(a, DblInt(ALPHA_THRESHOLD)),
                  !.updates = @ + 1]

\* Variant: update() adding the increment twice.
updateTwice(p) ==
    IF ~p.satisfied
    THEN LET a == DblAdd(DblAdd(p.alpha, p.alphaSpeed), p.alphaSpeed)
         IN  [p EXCEPT !.alpha = a,
                       !.satisfied = DblGeq(a, DblInt(ALPHA_THRESHOLD)),
                       !.updates = @ + 1]
    ELSE [p EXCEPT !.updates = @ + 1]

\* Point.update()
update(p) ==
    IF ~p.satisfied
    THEN LET a == DblAdd(p.alpha, p.alphaSpeed)
         IN  [p EXCEPT !.alpha = a,
                       !.satisfied = DblGeq(a, DblInt(ALPHA_THRESHOLD)),
                       !.updates = @ + 1]
    ELSE [p EXCEPT !.updates = @ + 1]


-----------------------------------------------------------------------------
(* static utilities of Mousygons *)

\* Values of Math.random() in [0.5, 1) that are multiples of 2^-53 and not
\* of 2^-RandBits; the value -k of r stands for FineRandoms[k].
FineRandoms == <<
    Dbl(0, 133911294, 111541676),     \* 0.9977168949771691  0x1.fed4bfb52fed6p-1
    Dbl(0, Limb - 1, Limb - 2) >>     \* 1 - 2^-53, the largest double below 1

\* the binary64 product r * (k2 / 2), for r of FineRandoms and an integer k2
\* (each intermediate result is bound as a value, so that it is computed once)
FineTimesHalf(r, k2) ==
    CHOOSE product \in
        { DblRound(half) :
          half \in { DblHalf(exact) : exact \in {DblTimes(FineRandoms[-r], k2)} } } : TRUE

\* Mousygons.randomIntBetween(min, max) = Math.floor(Math.random() * (max -
\* min + 1) + min), with Math.random() = r / RandDen.  min is an integer;
\* max may be a half-integer (64 - 3/2), so it is passed doubled, as max2.
randomIntBetween(r, min, max2) ==
    IF r < 0
    THEN (CHOOSE sum \in { DblAdd(product, DblInt(min)) :
                            product \in {FineTimesHalf(r, max2 - 2 * min + 2)} } : TRUE).i
    ELSE ((r * (max2 - 2 * min + 2)) \div (2 * RandDen)) + min

\* Mousygons.randomFloatBetween(min, max) = Math.random() * (max - min) + min,
\* with min and max given in quarters (and max - min a number of halves);
\* the result is a double.
randomFloatBetween(r, min_x4, max_x4) ==
    IF r < 0
    THEN CHOOSE sum \in { DblAdd(product, DblFrac(min_x4, 2)) :
                           product \in {FineTimesHalf(r, (max_x4 - min_x4) \div 2)} } : TRUE
    ELSE DblFrac(r * (max_x4 - min_x4) + min_x4 * RandDen, RandBits + 2)

\* Strings are sequences of one-character strings.
Digits == {"0", "1", "2", "3", "4", "5", "6", "7", "8", "9"}
LowerHex == {"a", "b", "c", "d", "e", "f"}
UpperHex == {"A", "B", "C", "D", "E", "F"}

\* Variant: the character class without the i flag.
HexClassCaseSensitive(c) == c \in Digits \cup LowerHex

\* the character class [a-f\d] under the regular expression's i flag
HexClass(c) == c \in Digits \cup LowerHex \cup UpperHex

\* value of one digit in radix 16, as parseInt reads it
HexDigit(c) ==
    CASE c \in {"0"} -> 0 [] c \in {"1"} -> 1 [] c \in {"2"} -> 2
      [] c \in {"3"} -> 3 [] c \in {"4"} -> 4 [] c \in {"5"} -> 5
      [] c \in {"6"} -> 6 [] c \in {"7"} -> 7 [] c \in {"8"} -> 8
      [] c \in {"9"} -> 9
      [] c \in {"a", "A"} -> 10 [] c \in {"b", "B"} -> 11
      [] c \in {"c", "C"} -> 12 [] c \in {"d", "D"} -> 13
      [] c \in {"e", "E"} -> 14 [] c \in {"f", "F"} -> 15

\* parseInt(s, 16) for a string s of hex digits
RECURSIVE parseInt16(_)
parseInt16(s) ==
    IF s = <<>> THEN 0
    ELSE 16 * parseInt16(SubSeq(s, 1, Len(s) - 1)) + HexDigit(s[Len(s)])

\* the value null (kept a record, as the RGB objects it is compared with are)
Null == [null |-> TRUE]

\* /^#?([a-f\d]{2})([a-f\d]{2})([a-f\d]{2})$/i.exec(hex): the three groups
\* matched when the rest of hex from position `from` is exactly six
\* characters of the class, else no match (the empty sequence)
hexGroupsFrom(hex, from) ==
    IF /\ Len(hex) - from + 1 = 6
       /\ \A i \in from..Len(hex) : HexClass(hex[i])
    THEN <<SubSeq(hex, from, from + 1), SubSeq(hex, from + 2, from + 3),
           SubSeq(hex, from + 4, from + 5)>>
    ELSE <<>>

\* the optional '#' is tried first, then the match without it
regexExec(hex) ==
    IF Len(hex) >= 1 /\ hex[1] = "#" /\ hexGroupsFrom(hex, 2) # <<>>
    THEN hexGroupsFrom(hex, 2)
    ELSE hexGroupsFrom(hex, 1)

\* Mousygons.hexToRgb(hex)
hexToRgb(hex) ==
    LET result == regexExec(hex)
    IN  IF result # <<>>
        THEN [r |-> parseInt16(result[1]), g |-> parseInt16(result[2]),
              b |-> parseInt16(result[3])]
        ELSE Null

-----------------------------------------------------------------------------
(* Math.random() *)

\* Scripted streams of Math.random() numerators; a script is read cyclically.
\* At the start of a run each group of four is one accepted createPoint:
\* size, x, y, fade increment.  The values used, as fractions of RandDen:
R0 == 0                          \* 0: size 2, coordinate = size, increment 0.25
R5_16 == (5 * RandDen) \div 16   \* 0.3125
R1_2 == RandDen \div 2           \* 0.5: size 3, increment 1.0
R5_8 == (5 * RandDen) \div 8     \* 0.625
R25_32 == (25 * RandDen) \div 32 \* 0.78125
RMax == RandDen - 1              \* just below 1: size 4, increment just below 1.75
\* n / 128: the five largest give the increments that take 147, 148, 149,
\* 150 and 151 calls of update() to reach 255
R128(n) == (n * RandDen) \div 128

\* b^e modulo m
RECURSIVE PowMod(_, _, _)
PowMod(b, e, m) ==
    IF e = 0 THEN 1 % m
    ELSE LET h == PowMod(b, e \div 2, m)
         IN  (((h * h) % m) * (IF e % 2 = 1 THEN b ELSE 1)) % m

\* A full-period linear congruential stream over 0..RandDen-1:
\* x(0) = 0, x(n + 1) = (5 * x(n) + 1) % RandDen, that is
\* x(n) = ((5^n - 1) / 4) % RandDen.
LcgAt(n) == ((PowMod(5, n, 4 * RandDen) - 1) \div 4) % RandDen

LcgStream == [n \in 1..RandDen |-> LcgAt(n - 1)]

Tapes == <<
    \* six 2-pixel points on a 3 x 2 grid, all with the slowest increment 0.25
    << R0, R0, R0, R0,          R0, R5_16, R0, R0,      R0, R5_8, R0, R0,
       R0, R0, R5_8, R0,        R0, R5_16, R5_8, R0,    R0, R5_8, R5_8, R0,
       RMax >>,
    \* sizes 4, 2, 3, 2, 4, 3 with fast, slow and medium increments
    << RMax, R0, R0, RMax,      R0, R5_16, R0, R0,      R1_2, R5_8, R0, RMax,
       R0, RMax, R0, RMax,      RMax, R0, R5_8, R1_2,   R1_2, RMax, RMax, RMax,
       R25_32 >>,
    \* six 2-pixel points on the 3 x 2 grid, each with a faster increment
    \* than the one before it, the last from a value with a full fraction
    << R0, R0, R0, R128(123),       R0, R5_16, R0, R128(124),
       R0, R5_8, R0, R128(125),     R0, R0, R5_8, R128(126),
       R0, R5_16, R5_8, R128(127),  R0, R5_8, R5_8, -1,
       R25_32 >>,
    \* six 2-pixel points in the right half of the surface, the last with
    \* the increment the largest double below 1 gives; the same value then
    \* gives the size of the point that replaces it
    << R0, R5_8, R0, R1_2,          R0, R128(119), R0, R1_2,
       R0, R5_8, R5_16, R1_2,       R0, R128(119), R5_16, R1_2,
       R0, R5_8, R5_8, R1_2,        R0, R128(119), R5_8, -2,
       -2 >>,
    \* pseudo-random sizes, positions and increments; runs start at the
    \* first NumSeeds positions of this stream
    LcgStream
  >>

\* the positions of script t a run may start reading at
TapeStarts(t) == IF t = Len(Tapes) THEN 0..(NumSeeds - 1) ELSE {0}

\* the scripted value n calls of Math.random() from now
TapeAt(n) == Tapes[tape][((tapePos + n) % Len(Tapes[tape])) + 1]

\* the values the call of Math.random() n calls from now may return: the
\* scripted one, or any of `free` when the run is unscripted
RandomAt(n, free) == IF tape = 0 THEN free ELSE {TapeAt(n)}

\* the values an unscripted run draws at each call site of createPoint
DimDraws == {0, RandDen - 1}
XDraws == {0, (25 * RandDen) \div 128, RandDen \div 2, (3 * RandDen) \div 4}
YDraws == {0, RandDen \div 2}
FadeDraws == {RandDen - 1}

\* tapePos after n more calls of Math.random()
Consumed(n) == IF tape = 0 THEN 0 ELSE (tapePos + n) % Len(Tapes[tape])

-----------------------------------------------------------------------------
(* class Mousygons *)

\* the style object updateMouseCanvas() hands to mouseCanvas.css()
updateMouseCanvas(mp) ==
    [left |-> mp.x - (CANVAS_WIDTH \div 2) + (MOUSE_WIDTH \div 2),
     top |-> mp.y - (CANVAS_HEIGHT \div 2) + (MOUSE_HEIGHT \div 2),
     position |-> "absolute", pointerEvents |-> "none"]

\* Variant: the forEach callback returning false after the first point
\* whatever the comparison said, so only this.points[0] is compared.
positionConflictFirstOnly(pts, positionX, positionY, dimensions) ==
    /\ Len(pts) >= 1
    /\ distanceToCoordsSq(pts[1], positionX, positionY)
           <= (dimensions * 6) * (dimensions * 6)

\* Variant: the comparison written `<` for `<=`.
positionConflictStrict(pts, positionX, positionY, dimensions) ==
    \E i \in 1..Len(pts) :
        distanceToCoordsSq(pts[i], positionX, positionY)
            < (dimensions * 6) * (dimensions * 6)

\* Variant: the separation written dimensions * 60 for dimensions * 6.
positionConflictWide(pts, positionX, positionY, dimensions) ==
    \E i \in 1..Len(pts) :
        distanceToCoordsSq(pts[i], positionX, positionY)
            <= (dimensions * 60) * (dimensions * 60)

\* the test of createPoint's inner forEach: some existing point is within
\* dimensions * 6 of (positionX, positionY)
positionConflict(pts, positionX, positionY, dimensions) ==
    \E i \in 1..Len(pts) :
        distanceToCoordsSq(pts[i], positionX, positionY)
            <= (dimensions * 6) * (dimensions * 6)

\* the candidate one iteration of createPoint's while loop draws
candidate(r1, r2, r3) ==
    LET dimensions == randomIntBetween(r1, 2, 2 * 4)
    IN  [dimensions |-> dimensions,
         positionX |-> randomIntBetween(r2, dimensions, 2 * CANVAS_WIDTH - dimensions),
         positionY |-> randomIntBetween(r3, dimensions, 2 * CANVAS_HEIGHT - dimensions)]

\* the locals of one iteration of createPoint's while loop, once the
\* forEach over this.points has run
Searched(c, conflict) ==
    [dimensions |-> c.dimensions, positionX |-> c.positionX,
     positionY |-> c.positionY, positionConflict |-> conflict]

\* search while createPoint has not run
NoSearch ==
    [dimensions |-> 0, positionX |-> 0, positionY |-> 0, positionConflict |-> FALSE]

\* Variants of the loop test: `<=` for `<`, and a capacity one short.
needsPointInclusive(pts) == Len(pts) <= MAX_POINTS_ALIVE
needsPointOneShort(pts) == Len(pts) < MAX_POINTS_ALIVE - 1

\* the loop test of fillPoints
needsPoint(pts) == Len(pts) < MAX_POINTS_ALIVE

RemoveAt(s, i) == SubSeq(s, 1, i - 1) \o SubSeq(s, i + 1, Len(s))

\* the for loop of updatePoints from index i (1-based here) on: each
\* iteration calls update() on this.points[i], splices it out when it is
\* satisfied, and increments i either way.  calls lists the ids update()
\* was called on, sat those of them isSatisfied() was then true for.
RECURSIVE updatePointsFrom(_, _, _, _)
updatePointsFrom(pts, i, calls, sat) ==
    IF i > Len(pts) THEN [points |-> pts, calls |-> calls, satisfied |-> sat]
    ELSE LET point == update(pts[i])
             pts1 == [pts EXCEPT ![i] = point]
         IN  IF point.satisfied
             THEN updatePointsFrom(RemoveAt(pts1, i), i + 1,
                                   Append(calls, point.id), Append(sat, point.id))
             ELSE updatePointsFrom(pts1, i + 1, Append(calls, point.id), sat)

\* Variant: the loop with splice(i, 2) written for splice(i, 1).
RECURSIVE updatePointsFromSpliceTwo(_, _, _, _)
updatePointsFromSpliceTwo(pts, i, calls, sat) ==
    IF i > Len(pts) THEN [points |-> pts, calls |-> calls, satisfied |-> sat]
    ELSE LET point == update(pts[i])
             pts1 == [pts EXCEPT ![i] = point]
         IN  IF point.satisfied
             THEN updatePointsFromSpliceTwo(
                      SubSeq(pts1, 1, i - 1) \o SubSeq(pts1, i + 2, Len(pts1)),
                      i + 1, Append(calls, point.id), Append(sat, point.id))
             ELSE updatePointsFromSpliceTwo(pts1, i + 1, Append(calls, point.id), sat)

updatePointsSpliceTwo(pts) == updatePointsFromSpliceTwo(pts, 1, <<>>, <<>>)

\* Variant: the loop with a `break` after the splice.
RECURSIVE updatePointsFromBreak(_, _, _, _)
updatePointsFromBreak(pts, i, calls, sat) ==
    IF i > Len(pts) THEN [points |-> pts, calls |-> calls, satisfied |-> sat]
    ELSE LET point == update(pts[i])
             pts1 == [pts EXCEPT ![i] = point]
         IN  IF point.satisfied
             THEN [points |-> RemoveAt(pts1, i), calls |-> Append(calls, point.id),
                   satisfied |-> Append(sat, point.id)]
             ELSE updatePointsFromBreak(pts1, i + 1, Append(calls, point.id), sat)

updatePointsBreak(pts) == updatePointsFromBreak(pts, 1, <<>>, <<>>)

\* Variant: the loop with splice(i + 1, 1) written for splice(i, 1), which
\* removes the point behind the satisfied one.
RECURSIVE updatePointsFromSpliceNext(_, _, _, _)
updatePointsFromSpliceNext(pts, i, calls, sat) ==
    IF i > Len(pts) THEN [points |-> pts, calls |-> calls, satisfied |-> sat]
    ELSE LET point == update(pts[i])
             pts1 == [pts EXCEPT ![i] = point]
         IN  IF point.satisfied
             THEN updatePointsFromSpliceNext(
                      SubSeq(pts1, 1, i) \o SubSeq(pts1, i + 2, Len(pts1)),
                      i + 1, Append(calls, point.id), Append(sat, point.id))
             ELSE updatePointsFromSpliceNext(pts1, i + 1, Append(calls, point.id), sat)

updatePointsSpliceNext(pts) == updatePointsFromSpliceNext(pts, 1, <<>>, <<>>)

\* Mousygons.updatePoints()
updatePoints(pts) == updatePointsFrom(pts, 1, <<>>, <<>>)

\* what drawPoints() paints for one point: fillStyle rgba(r,g,b,alpha/255)
\* and fillRect(x - d/2, y - d/2, d, d); the corner is kept doubled
drawPoint(point) ==
    LET rgb == hexToRgb(<<"#", "0", "0", "b", "f", "9", "b">>)
    IN  [r |-> rgb.r, g |-> rgb.g, b |-> rgb.b, alpha255 |-> point.alpha,
         left2 |-> 2 * point.x - point.dimensions,
         top2 |-> 2 * point.y - point.dimensions,
         width |-> point.dimensions, height |-> point.dimensions,
         id |-> point.id]

Ids(pts) == [i \in 1..Len(pts) |-> pts[i].id]

TickCap == IF tape = 0 THEN FillTicks ELSE MaxTicks

\* update(), first step: clearCanvas(), then the first test of fillPoints' loop
ClearCanvas ==
    /\ pc = "idle"
    /\ tick < TickCap
    /\ tick' = tick + 1
    /\ canvas' = <<>>
    /\ pc' = IF needsPoint(points) THEN "fill" ELSE "update"
    /\ UNCHANGED <<points, mousePosition, css, nextId, adv, tape, tapePos,
                   lastEvent, search, hexIn, hexOut>>

\* one iteration of createPoint's while loop inside fillPoints: a rejected
\* candidate leaves the collection alone and the loop draws again; an
\* accepted one is constructed with a fresh fade increment and pushed, and
\* fillPoints tests its loop condition again
FillStep ==
    /\ pc = "fill"
    /\ \E r1 \in RandomAt(0, DimDraws), r2 \in RandomAt(1, XDraws),
          r3 \in RandomAt(2, YDraws), r4 \in RandomAt(3, FadeDraws) :
          LET c == candidate(r1, r2, r3)
          IN  IF positionConflict(points, c.positionX, c.positionY, c.dimensions)
              THEN /\ search' = Searched(c, TRUE)
                   /\ tapePos' = Consumed(3)
                   /\ UNCHANGED <<points, nextId, pc>>
              ELSE /\ search' = Searched(c, FALSE)
                   /\ points' = Append(points,
                          Point(c.positionX, c.positionY, c.dimensions,
                                randomFloatBetween(r4, FADE_MIN_x4, FADE_MAX_x4),
                                nextId, tick))
                   /\ nextId' = nextId + 1
                   /\ tapePos' = Consumed(4)
                   /\ pc' = IF needsPoint(points') THEN "fill" ELSE "update"
    /\ UNCHANGED <<mousePosition, css, canvas, tick, adv, tape, lastEvent,
                   hexIn, hexOut>>

\* update(), third step: updatePoints()
UpdatePoints ==
    /\ pc = "update"
    /\ LET res == updatePoints(points)
       IN  /\ points' = res.points
           /\ adv' = [start |-> Ids(points), calls |-> res.calls,
                      satisfied |-> res.satisfied]
    /\ pc' = "draw"
    /\ UNCHANGED <<mousePosition, css, canvas, tick, nextId, tape, tapePos,
                   lastEvent, search, hexIn, hexOut>>

\* Variant: the loop of drawPoints() starting at the second point.
DrawPointsSkipFirst ==
    /\ pc = "draw"
    /\ canvas' = canvas \o [i \in 1..(Len(points) - 1) |-> drawPoint(points[i + 1])]
    /\ pc' = "idle"
    /\ UNCHANGED <<points, mousePosition, css, tick, nextId, adv, tape,
                   tapePos, lastEvent, search, hexIn, hexOut>>

\* update(), last step: drawPoints()
DrawPoints ==
    /\ pc = "draw"
    /\ canvas' = canvas \o [i \in 1..Len(points) |-> drawPoint(points[i])]
    /\ pc' = "idle"
    /\ UNCHANGED <<points, mousePosition, css, tick, nextId, adv, tape,
                   tapePos, lastEvent, search, hexIn, hexOut>>

\* Variant: the handler without its call of updateMouseCanvas().
MouseMoveStale ==
    /\ pc = "idle"
    /\ \E pageX \in 0..MaxCoord, pageY \in 0..MaxCoord :
          /\ mousePosition' = [x |-> pageX, y |-> pageY]
          /\ lastEvent' = [x |-> pageX, y |-> pageY]
    /\ UNCHANGED <<points, css, canvas, pc, tick, nextId, adv, tape, tapePos,
                   search, hexIn, hexOut>>

\* Variant: the handler also calling clearCanvas().
MouseMoveClears ==
    /\ pc = "idle"
    /\ \E pageX \in 0..MaxCoord, pageY \in 0..MaxCoord :
          /\ mousePosition' = [x |-> pageX, y |-> pageY]
          /\ css' = updateMouseCanvas(mousePosition')
          /\ lastEvent' = [x |-> pageX, y |-> pageY]
    /\ canvas' = <<>>
    /\ UNCHANGED <<points, pc, tick, nextId, adv, tape, tapePos, search, hexIn, hexOut>>

\* mouseMovementHandler(event): an event-loop callback, so it runs only
\* while no other callback is running
MouseMove ==
    /\ pc = "idle"
    /\ \E pageX \in 0..MaxCoord, pageY \in 0..MaxCoord :
          /\ mousePosition' = [x |-> pageX, y |-> pageY]
          /\ css' = updateMouseCanvas(mousePosition')
          /\ lastEvent' = [x |-> pageX, y |-> pageY]
    /\ UNCHANGED <<points, canvas, pc, tick, nextId, adv, tape, tapePos,
                   search, hexIn, hexOut>>

\* hexOut while hexToRgb has not been called
Unset == [unset |-> TRUE]

\* the state the constructor leaves (start() only registers the timer)
Constructed ==
    /\ mousePosition = [x |-> 0, y |-> 0]
    /\ css = updateMouseCanvas(mousePosition)
    /\ points = <<>>
    /\ canvas = <<>>
    /\ pc = "idle"
    /\ tick = 0
    /\ nextId = 0
    /\ adv = [start |-> <<>>, calls |-> <<>>, satisfied |-> <<>>]
    /\ lastEvent = [x |-> 0, y |-> 0]
    /\ search = NoSearch
    /\ hexIn = <<>>
    /\ hexOut = Unset

\* The controller, Math.random() scripted, with mousemove events.
Init == Constructed /\ tape \in 1..Len(Tapes) /\ tapePos \in TapeStarts(tape)

Next == ClearCanvas \/ FillStep \/ UpdatePoints \/ DrawPoints \/ MouseMove

Spec == Init /\ [][Next]_vars

-----------------------------------------------------------------------------
(* The first ticks of the controller with Math.random() unscripted: every   *)
(* call returns any value of its call site's draw set.                      *)

InitFill == Constructed /\ tape = 0 /\ tapePos = 0

NextFill == ClearCanvas \/ FillStep \/ UpdatePoints \/ DrawPoints

SpecFill == InitFill /\ [][NextFill]_vars

-----------------------------------------------------------------------------
(* The controller under fair scheduling.  The runs are those of Spec, and   *)
(* unscripted runs that take up the first tick's fill where four 2-pixel    *)
(* points have been pushed; of the candidates an unscripted run draws there *)
(* all but two are rejected.  The while loop of createPoint keeps           *)
(* iterating (weak fairness of FillStep), and Math.random() is fair: a      *)
(* candidate that could be accepted again and again is accepted at some     *)
(* point (strong fairness of FillAccept).                                   *)

\* an iteration of createPoint's loop that ends in `return new Point(...)`
FillAccept == FillStep /\ Len(points') > Len(points)

\* Math.random() as returned for the size, x and y of the four points
MidFillDraws == << <<0, 0, 0>>, <<0, RandDen \div 2, 0>>,
                   <<0, 0, RandDen \div 2>>, <<0, RandDen \div 2, RandDen \div 2>> >>

MidFillPoint(k) ==
    LET c == candidate(MidFillDraws[k][1], MidFillDraws[k][2], MidFillDraws[k][3])
    IN  Point(c.positionX, c.positionY, c.dimensions,
              randomFloatBetween(RandDen - 1, FADE_MIN_x4, FADE_MAX_x4), k - 1, 1)

InitMidFill ==
    /\ points = [k \in 1..Len(MidFillDraws) |-> MidFillPoint(k)]
    /\ search = Searched(candidate(MidFillDraws[4][1], MidFillDraws[4][2],
                                   MidFillDraws[4][3]), FALSE)
    /\ pc = "fill"
    /\ tick = 1
    /\ nextId = Len(MidFillDraws)
    /\ tape = 0
    /\ tapePos = 0
    /\ mousePosition = [x |-> 0, y |-> 0]
    /\ css = updateMouseCanvas(mousePosition)
    /\ canvas = <<>>
    /\ adv = [start |-> <<>>, calls |-> <<>>, satisfied |-> <<>>]
    /\ lastEvent = [x |-> 0, y |-> 0]
    /\ hexIn = <<>>
    /\ hexOut = Unset

InitFair == Init \/ InitMidFill

SpecFair ==
    InitFair /\ [][Next]_vars /\ WF_vars(FillStep) /\ SF_vars(FillAccept)

-----------------------------------------------------------------------------
(* One Point on its own: constructed with some fade increment, then         *)
(* update() called on it again and again.                                   *)

\* fade increments tried, as doubles
FadeInputs == {
    Dbl(0, 33554432, 0),            \* 0.25                0x1.0000000000000p-2
    Dbl(1, 0, 0),                   \* 1.0
    Dbl(0, 40265318, 53687091),     \* 0.3                 0x1.3333333333333p-2
    Dbl(0, 68451041, 37580964),     \* 0.51                0x1.051eb851eb852p-1
    Dbl(1, 100203646, 33094784),    \* 1.7465753424657535  0x1.bf1f8fc7e3f20p+0
    Dbl(1, 98608943, 2739136) }     \* 1.7346938775510203  0x1.bc14e5e0a72f0p+0

InitPoint ==
    /\ \E f \in FadeInputs : points = <<Point(0, 0, 0, f, 0, 0)>>
    /\ pc = "point"
    /\ mousePosition = [x |-> 0, y |-> 0]
    /\ css = updateMouseCanvas(mousePosition)
    /\ canvas = <<>>
    /\ tick = 0
    /\ nextId = 1
    /\ adv = [start |-> <<>>, calls |-> <<>>, satisfied |-> <<>>]
    /\ tape = 0
    /\ tapePos = 0
    /\ lastEvent = [x |-> 0, y |-> 0]
    /\ search = NoSearch
    /\ hexIn = <<>>
    /\ hexOut = Unset

\* point.update()
PointUpdate ==
    /\ pc = "point"
    /\ points[1].updates < MaxCalls
    /\ points' = <<update(points[1])>>
    /\ UNCHANGED <<mousePosition, css, canvas, pc, tick, nextId, adv, tape,
                   tapePos, lastEvent, search, hexIn, hexOut>>

SpecPoint == InitPoint /\ [][PointUpdate]_vars

-----------------------------------------------------------------------------
(* One call of the static hexToRgb.                                         *)

\* characters the argument is built from: '#', a digit, a lower-case and an
\* upper-case hex letter, and a letter that is no hex digit
HexAlphabet == {"#", "9", "b", "F", "g"}

HexInputs == UNION {[1..n -> HexAlphabet] : n \in 0..MaxHexLen}

InitHex ==
    /\ hexIn \in HexInputs
    /\ hexOut = Unset
    /\ pc = "hex"
    /\ points = <<>>
    /\ mousePosition = [x |-> 0, y |-> 0]
    /\ css = updateMouseCanvas(mousePosition)
    /\ canvas = <<>>
    /\ tick = 0
    /\ nextId = 0
    /\ adv = [start |-> <<>>, calls |-> <<>>, satisfied |-> <<>>]
    /\ tape = 0
    /\ tapePos = 0
    /\ lastEvent = [x |-> 0, y |-> 0]
    /\ search = NoSearch

\* hexToRgb(hexIn)
HexCall ==
    /\ pc = "hex"
    /\ hexOut = Unset
    /\ hexOut' = hexToRgb(hexIn)
    /\ UNCHANGED <<points, mousePosition, css, canvas, pc, tick, nextId, adv,
                   tape, tapePos, lastEvent, search, hexIn>>

SpecHex == InitHex /\ [][HexCall]_vars

-----------------------------------------------------------------------------
(* Properties *)

\* the point of SpecPoint
thePoint == points[1]

\* ceil(255 / f) <= n, for a double f > 0: n * f >= 255 in exact arithmetic
AtLeastCeil(n, f) == DblGeq(DblTimes(f, n), DblInt(ALPHA_THRESHOLD))

\* C1: the active collection never holds more than 6 points, in any state
\* of the controller (idle, filling, after Fill, after Advance & evict,
\* after Draw).
C1_AtMostSix == Len(points) <= 6

\* C1 witness: a later tick's Fill has topped the collection back up to 6
\* after an eviction.
C1_Witness ==
    /\ pc = "update" /\ Len(points) = 6
    /\ adv.satisfied # <<>> /\ nextId > 6

\* C2 as claimed: after the Fill step, every ordered pair of distinct points
\* p, q is further apart than size(p) * 6.
C2_EveryOrderedPair ==
    pc = "update" =>
        \A i, j \in 1..Len(points) :
            i # j => distanceToCoordsSq(points[i], points[j].x, points[j].y)
                        > (points[i].dimensions * 6) * (points[i].dimensions * 6)

\* C2 amended: after the Fill step, every two distinct points are further
\* apart than 6 times the size of the one created later (the one later in
\* the collection).
C2_LaterPointSeparation ==
    pc = "update" =>
        \A i, j \in 1..Len(points) :
            i < j => distanceToCoordsSq(points[i], points[j].x, points[j].y)
                        > (points[j].dimensions * 6) * (points[j].dimensions * 6)

\* C2 witness: Fill has finished with a small point next to an older, larger
\* point, closer to it than 6 times the larger size.
C2_Witness ==
    /\ pc = "update" /\ Len(points) = 6
    /\ \E i, j \in 1..Len(points) :
          /\ i < j
          /\ points[i].dimensions > points[j].dimensions
          /\ distanceToCoordsSq(points[i], points[j].x, points[j].y)
                <= (points[i].dimensions * 6) * (points[i].dimensions * 6)

\* C3 as claimed: in every Advance & evict step, each point that was in the
\* collection when the step began had update() called on it exactly once.
C3_EachUpdatedOnce ==
    \A i \in 1..Len(adv.start) :
        Cardinality({j \in 1..Len(adv.calls) : adv.calls[j] = adv.start[i]}) = 1

\* C4 as claimed: a Point is satisfied once it has had ceil(255 / f) calls of
\* update(), and not before its fade value has reached 255.
C4_WithinCeil ==
    /\ AtLeastCeil(thePoint.updates, thePoint.alphaSpeed) => thePoint.satisfied
    /\ thePoint.satisfied => DblGeq(thePoint.alpha, DblInt(255))

\* C4 amended: a Point is satisfied once it has had ceil(255 / f) + 1 calls
\* of update(), and exactly when its fade value has reached 255; once it is
\* satisfied, update() changes neither the flag nor the fade value.
C4_WithinCeilPlusOne ==
    /\ [](/\ (/\ thePoint.updates >= 1
              /\ AtLeastCeil(thePoint.updates - 1, thePoint.alphaSpeed))
             => thePoint.satisfied
          /\ thePoint.satisfied <=> DblGeq(thePoint.alpha, DblInt(255)))
    /\ [][thePoint.satisfied =>
             thePoint'.satisfied /\ thePoint'.alpha = thePoint.alpha]_vars

\* C4 witness: a Point that needed one call more than ceil(255 / f) is
\* satisfied and has had further calls of update() since.
C4_Witness ==
    /\ pc = "point" /\ thePoint.satisfied
    /\ thePoint.updates = MaxCalls
    /\ thePoint.alphaSpeed = Dbl(1, 100203646, 33094784)

\* C5: after the Fill step the collection holds exactly 6 points; the 6
\* points after the first Fill all have fade value 0 and are not satisfied;
\* a step of Fill leaves every point that was already active in place and
\* unchanged.
C5_FillToSix ==
    /\ [](pc = "update" => Len(points) = 6)
    /\ [](pc = "update" /\ tick = 1 =>
             \A i \in 1..Len(points) :
                 points[i].alpha = Dbl(0, 0, 0) /\ ~points[i].satisfied)
    /\ [][pc = "fill" =>
             /\ Len(points') >= Len(points)
             /\ SubSeq(points', 1, Len(points)) = points]_vars

\* C5 witness: a Fill after an eviction has appended new points behind the
\* surviving ones and reached 6.
C5_Witness ==
    /\ pc = "update" /\ Len(points) = 6 /\ tick > 1
    /\ points[1].born < tick /\ points[6].born = tick

\* C6 as claimed: once 1020 ticks have run, none of the 6 points created by
\* the first tick's Fill is still in the collection.
C6_OriginalsGone ==
    pc = "idle" /\ tick >= 1020 =>
        \A i \in 1..Len(points) : points[i].born # 1

\* C7 as claimed: at the end of every tick the collection holds exactly 6.
C7_SixAtEndOfTick == pc = "idle" /\ tick >= 1 => Len(points) = 6

\* C7 amended: after the Fill step of every tick the collection holds
\* exactly 6 points, and from the Advance & evict step to the end of the
\* tick it holds 6 less the points found satisfied in that step.
C7_SixAfterFill ==
    /\ pc = "update" => Len(points) = 6
    /\ pc \in {"draw", "idle"} /\ tick >= 1 =>
           Len(points) = 6 - Len(adv.satisfied)

\* C7 witness: a tick has ended with points evicted and fewer than 6 left.
C7_Witness == pc = "idle" /\ adv.satisfied # <<>> /\ Len(points) < 6

\* C8: the stored pointer position is that of the most recent mousemove
\* event ((0,0) before any), and the placement requested for the overlay is
\* left = px - 64/2 + 12/2, top = py - 64/2 + 20/2 for that position, with
\* absolute positioning and pointer events off.
C8_PlacementFollowsPointer ==
    /\ mousePosition = lastEvent
    /\ css = [left |-> mousePosition.x - 32 + 6,
              top |-> mousePosition.y - 32 + 10,
              position |-> "absolute", pointerEvents |-> "none"]

\* C8 witness: a mousemove event has arrived after ticks have run.
C8_Witness ==
    /\ tick >= 1 /\ lastEvent = [x |-> 1, y |-> 0]
    /\ css.left = -25 /\ css.top = -22

\* C9: a step that changes the stored pointer position or the placement
\* happens between ticks and changes neither the collection, nor any point,
\* nor what is on the canvas; a step of a tick changes neither the stored
\* pointer position nor the placement.
C9_PointerMoveFrame ==
    [][/\ (mousePosition' # mousePosition \/ css' # css \/ lastEvent' # lastEvent)
          => /\ pc = "idle" /\ pc' = "idle"
             /\ UNCHANGED <<points, canvas, tick, nextId, adv>>
       /\ (pc # "idle" \/ pc' # "idle" \/ tick' # tick)
          => UNCHANGED <<mousePosition, css, lastEvent>>]_vars

\* C9 witness: the pointer has moved between two ticks, with points alive
\* and their squares on the canvas.
C9_Witness ==
    /\ pc = "idle" /\ tick >= 2 /\ Len(points) = 6 /\ Len(canvas) = 6
    /\ mousePosition = [x |-> 1, y |-> 1]

\* the hexadecimal digits, in order of value
C10_LowerDigits == <<"0", "1", "2", "3", "4", "5", "6", "7", "8", "9",
                     "a", "b", "c", "d", "e", "f">>
C10_UpperDigits == <<"0", "1", "2", "3", "4", "5", "6", "7", "8", "9",
                     "A", "B", "C", "D", "E", "F">>
C10_IsHexDigit(c) ==
    \E v \in 1..16 : c = C10_LowerDigits[v] \/ c = C10_UpperDigits[v]
C10_ValueOf(c) ==
    (CHOOSE v \in 1..16 : c = C10_LowerDigits[v] \/ c = C10_UpperDigits[v]) - 1
C10_Pair(s, k) == 16 * C10_ValueOf(s[k]) + C10_ValueOf(s[k + 1])
\* s without one leading '#'
C10_Body(s) == IF Len(s) >= 1 /\ s[1] = "#" THEN Tail(s) ELSE s
C10_SixHexDigits(s) == Len(s) = 6 /\ \A k \in 1..6 : C10_IsHexDigit(s[k])

\* C10: hexToRgb returns the RGB triple of the three digit pairs read in
\* base 16, each component in 0..255, exactly when its argument is six
\* hexadecimal digits of either case after at most one '#', and null for
\* every other string.
C10_HexToRgb ==
    hexOut # Unset =>
        IF C10_SixHexDigits(C10_Body(hexIn))
        THEN /\ hexOut = [r |-> C10_Pair(C10_Body(hexIn), 1),
                          g |-> C10_Pair(C10_Body(hexIn), 3),
                          b |-> C10_Pair(C10_Body(hexIn), 5)]
             /\ hexOut.r \in 0..255 /\ hexOut.g \in 0..255 /\ hexOut.b \in 0..255
        ELSE hexOut = Null

\* C10 witness: a '#'-prefixed string of mixed case has been converted.
C10_Witness ==
    /\ hexIn = <<"#", "9", "b", "F", "F", "b", "9">>
    /\ hexOut = [r |-> 155, g |-> 255, b |-> 185]

\* C11: no point of the active collection is satisfied or has a fade value
\* of 255 or more, in any state of the controller (so none when Advance &
\* evict has finished, at Draw and between ticks); every point Advance &
\* evict finds satisfied is gone from the collection when the step ends;
\* and nothing on the canvas was drawn with a fade value of 255 or more.
C11_NoSatisfiedPointKept ==
    /\ \A i \in 1..Len(points) :
           /\ ~points[i].satisfied
           /\ ~DblGeq(points[i].alpha, DblInt(255))
    /\ pc \in {"draw", "idle"} =>
           \A k \in 1..Len(adv.satisfied) :
               \A i \in 1..Len(points) : points[i].id # adv.satisfied[k]
    /\ \A i \in 1..Len(canvas) : ~DblGeq(canvas[i].alpha255, DblInt(255))

\* C11 witness: Advance & evict has just removed a point whose fade value
\* reached 255 in this tick, and points that have not reached it remain.
C11_Witness ==
    /\ pc = "draw" /\ Len(adv.satisfied) = 1 /\ Len(points) = 5
    /\ \E i \in 1..Len(points) : DblGeq(points[i].alpha, DblInt(200))

\* the square of the distance between point p and the position (x, y)
C12_DistSq(p, x, y) == (p.x - x) * (p.x - x) + (p.y - y) * (p.y - y)

\* every point of collection pts is further than size * 6 from (x, y)
C12_AllBeyond(pts, x, y, size) ==
    \A i \in 1..Len(pts) : C12_DistSq(pts[i], x, y) > (size * 6) * (size * 6)

\* C12: every iteration of the placement search either appends its
\* candidate (x, y, size), when every point of the collection at that
\* moment is further than size * 6 from (x, y), or, when some point is at
\* distance size * 6 or less, leaves the collection as it is and goes on
\* searching.
C12_AppendOnlyBeyondSeparation ==
    [][pc = "fill" =>
          IF C12_AllBeyond(points, search'.positionX, search'.positionY,
                           search'.dimensions)
          THEN /\ ~search'.positionConflict
               /\ Len(points') = Len(points) + 1
               /\ SubSeq(points', 1, Len(points)) = points
               /\ points'[Len(points')].x = search'.positionX
               /\ points'[Len(points')].y = search'.positionY
               /\ points'[Len(points')].dimensions = search'.dimensions
          ELSE /\ search'.positionConflict
               /\ points' = points
               /\ pc' = "fill"]_vars

\* C12 witness: the search has rejected a candidate whose nearest point is
\* at exactly size * 6.
C12_Witness ==
    /\ pc = "fill" /\ search.positionConflict
    /\ \E i \in 1..Len(points) :
          C12_DistSq(points[i], search.positionX, search.positionY)
              = (search.dimensions * 6) * (search.dimensions * 6)
    /\ \A i \in 1..Len(points) :
          C12_DistSq(points[i], search.positionX, search.positionY)
              >= (search.dimensions * 6) * (search.dimensions * 6)

\* C13 as claimed: every point of the collection has coordinates x and y
\* with size <= x <= 64 - size/2 and size <= y <= 64 - size/2 (compared
\* doubled, the upper bound being a half-integer for size 3).
C13_CoordinatesWithinBounds ==
    \A i \in 1..Len(points) :
        LET size == points[i].dimensions
        IN  /\ size \in {2, 3, 4}
            /\ 2 * size <= 2 * points[i].x /\ 2 * points[i].x <= 2 * 64 - size
            /\ 2 * size <= 2 * points[i].y /\ 2 * points[i].y <= 2 * 64 - size

\* C14 as claimed: the fade value of a Point never exceeds 255.
C14_NeverAboveThreshold == DblGeq(DblInt(255), thePoint.alpha)

\* C14 amended: the fade value of a Point starts at 0, is never negative,
\* never decreases, is below 255 as long as the Point is not satisfied, and
\* never exceeds the binary64 sum 255 + f, f being the Point's fade
\* increment, so that it is always below 256.75.
C14_BelowThresholdPlusIncrement ==
    /\ [](/\ thePoint.updates = 0 => thePoint.alpha = Dbl(0, 0, 0)
          /\ DblGeq(thePoint.alpha, Dbl(0, 0, 0))
          /\ ~thePoint.satisfied => ~DblGeq(thePoint.alpha, DblInt(255))
          /\ DblGeq(DblAdd(DblInt(255), thePoint.alphaSpeed), thePoint.alpha)
          /\ ~DblGeq(thePoint.alpha, DblFrac(4 * 255 + FADE_MAX_x4, 2)))
    /\ [][DblGeq(thePoint'.alpha, thePoint.alpha)]_vars

\* C14 witness: a satisfied Point whose fade value stopped above 255, with
\* calls of update() made on it since.
C14_Witness ==
    /\ pc = "point" /\ thePoint.satisfied
    /\ thePoint.alphaSpeed = Dbl(0, 68451041, 37580964)
    /\ DblGeq(thePoint.alpha, DblInt(255)) /\ thePoint.alpha # DblInt(255)
    /\ thePoint.updates = 600

\* the ids of sequence ids that do not occur in sequence gone, in order
C15_Without(ids, gone) ==
    SelectSeq(ids, LAMBDA id : \A k \in 1..Len(gone) : gone[k] # id)

\* C15: everything on the canvas was drawn in teal (0, 191, 155) with a
\* fade value between 0 and 255, that is with alpha = fade value / 255 in
\* [0, 1]; the Draw step changes neither the collection nor any point, and
\* puts on the cleared canvas one square per point of the collection, in
\* order, with that point's fade value, these points being the ones the
\* tick's Advance & evict step began with less the ones it found satisfied.
C15_DrawsTheRemainingPoints ==
    /\ [](\A i \in 1..Len(canvas) :
             /\ DblGeq(canvas[i].alpha255, DblInt(0))
             /\ DblGeq(DblInt(255), canvas[i].alpha255)
             /\ canvas[i].r = 0 /\ canvas[i].g = 191 /\ canvas[i].b = 155)
    /\ [][pc = "draw" =>
             /\ points' = points
             /\ canvas = <<>>
             /\ Len(canvas') = Len(points)
             /\ \A i \in 1..Len(points) :
                    /\ canvas'[i].id = points[i].id
                    /\ canvas'[i].alpha255 = points[i].alpha
             /\ [i \in 1..Len(canvas') |-> canvas'[i].id]
                    = C15_Without(adv.start, adv.satisfied)]_vars

\* C15 witness: Draw has run in a tick whose Advance & evict removed a
\* point, and has drawn the five remaining points, one of them almost
\* opaque.
C15_Witness ==
    /\ pc = "idle" /\ tick > 1
    /\ Len(adv.satisfied) = 1 /\ Len(canvas) = 5 /\ Len(points) = 5
    /\ \E i \in 1..Len(canvas) : DblGeq(canvas[i].alpha255, DblInt(254))

\* C16, fade increment and immutability: every point of the collection has
\* a fade increment of at least 0.25 and below 1.75 (so none is the
\* placeholder Point(0, 0, 0, 0)), and a point that is in the collection
\* before and after a step has the same position, size and fade increment
\* after it.
C16_IncrementInRangeAndFixed ==
    /\ [](\A i \in 1..Len(points) :
             /\ DblGeq(points[i].alphaSpeed, DblFrac(1, 2))
             /\ ~DblGeq(points[i].alphaSpeed, DblFrac(7, 2)))
    /\ [][\A i \in 1..Len(points) : \A j \in 1..Len(points') :
             points[i].id = points'[j].id =>
                 /\ points'[j].x = points[i].x
                 /\ points'[j].y = points[i].y
                 /\ points'[j].dimensions = points[i].dimensions
                 /\ points'[j].alphaSpeed = points[i].alphaSpeed]_vars

\* C16 as claimed: every point of the collection has a size of 2, 3 or 4
\* and a fade increment of at least 0.25 and below 1.75, and a point that
\* is in the collection before and after a step has the same position, size
\* and fade increment after it.
C16_SizeAndIncrementFixed ==
    /\ [](\A i \in 1..Len(points) : points[i].dimensions \in {2, 3, 4})
    /\ C16_IncrementInRangeAndFixed

\* C17: whenever the fill is searching for a place (the collection holds
\* fewer than 6 points), some size, x and y that Math.random() can yield
\* form a candidate further than size * 6 from every point of the
\* collection; and under fair scheduling every fill that has begun ends
\* (the tick goes on to Advance & evict).
C17_FillTerminates ==
    /\ [](pc = "fill" =>
             /\ Len(points) < 6
             /\ \E r1 \in 0..(RandDen - 1) :
                    \E r2 \in 0..(RandDen - 1) :
                        \E r3 \in 0..(RandDen - 1) :
                            LET c == candidate(r1, r2, r3)
                            IN  C12_AllBeyond(points, c.positionX, c.positionY,
                                              c.dimensions))
    /\ (pc = "fill") ~> (pc = "update")

\* C17 witness: an unscripted fill has reached 6 points after a rejected
\* candidate, the last accepted one being the only candidate of the draws
\* left that could be.
C17_Witness ==
    /\ pc = "update" /\ tape = 0 /\ Len(points) = 6
    /\ points[5].x = points[6].x /\ points[5].dimensions = 2
    /\ ~search.positionConflict

\* C19 as claimed: every point of the collection has x - size/2 >= 0,
\* y - size/2 >= 0, x + size/2 <= 64 and y + size/2 <= 64, and every square
\* on the canvas lies within the 64 x 64 surface (compared doubled).
C19_SquaresInsideSurface ==
    /\ \A i \in 1..Len(points) :
           /\ 2 * points[i].x - points[i].dimensions >= 0
           /\ 2 * points[i].y - points[i].dimensions >= 0
           /\ 2 * points[i].x + points[i].dimensions <= 2 * 64
           /\ 2 * points[i].y + points[i].dimensions <= 2 * 64
    /\ \A i \in 1..Len(canvas) :
           /\ canvas[i].left2 >= 0 /\ canvas[i].top2 >= 0
           /\ canvas[i].left2 + 2 * canvas[i].width <= 2 * 64
           /\ canvas[i].top2 + 2 * canvas[i].height <= 2 * 64

\* the number of ticks point p has been in the collection for, the tick
\* that created it and the current one included
C18_Ticks(p) == tick - p.born + 1

\* C18 as claimed: a point is evicted no later than the (ceil(255 / f) +
\* 5)-th tick it is in the collection for: a point still in the collection
\* when a tick's Advance & evict has run has been there for fewer than
\* ceil(255 / f) + 5 ticks.
C18_GoneWithinCeilPlusFive ==
    pc \in {"draw", "idle"} =>
        \A i \in 1..Len(points) :
            C18_Ticks(points[i]) > 5 =>
                ~AtLeastCeil(C18_Ticks(points[i]) - 5, points[i].alphaSpeed)

\* C18 amended: a point misses its update() in at most 5 of the ticks it is
\* in the collection for; Advance & evict passes a point over only when the
\* point right before it in the collection is removed in that step; Fill
\* appends behind the points there are; and a point is evicted no later
\* than the (ceil(255 / f) + 6)-th tick it is in the collection for.
C18_GoneWithinCeilPlusSix ==
    /\ [](pc \in {"draw", "idle"} =>
             \A i \in 1..Len(points) :
                 /\ points[i].updates <= C18_Ticks(points[i])
                 /\ C18_Ticks(points[i]) - points[i].updates <= 5
                 /\ C18_Ticks(points[i]) > 6 =>
                        ~AtLeastCeil(C18_Ticks(points[i]) - 6, points[i].alphaSpeed))
    /\ [](\A k \in 1..Len(adv.start) :
             (\A j \in 1..Len(adv.calls) : adv.calls[j] # adv.start[k]) =>
                 /\ k > 1
                 /\ \E j \in 1..Len(adv.satisfied) :
                        adv.satisfied[j] = adv.start[k - 1])
    /\ [][pc = "fill" => SubSeq(points', 1, Len(points)) = points]_vars

\* C18 witness: a point has missed 5 ticks and is still in the collection
\* after ceil(255 / f) + 5 ticks.
C18_Witness ==
    /\ pc = "draw"
    /\ \E i \in 1..Len(points) :
          /\ C18_Ticks(points[i]) - points[i].updates = 5
          /\ AtLeastCeil(C18_Ticks(points[i]) - 5, points[i].alphaSpeed)

=============================================================================
